---- MODULE Spec2Model ----
(***************************************************************************)
(* State-machine model of the crafting game of src/Lab1/src/Crafting.jsx:  *)
(* the persisted GameState {inv, discovered, finalCrafted}, the transient  *)
(* crafting grid, the localStorage entry and one action per event handler. *)
(* JS arrays are functions over 0..N-1, so slot indices are the source's.  *)
(***************************************************************************)
EXTENDS Integers, Sequences, FiniteSets, TLC

\* ------------------------------------------------------------------------
\* Catalog and program constants
\* ------------------------------------------------------------------------
NULL == "null"

RESOURCES == <<"petal", "leaf", "drop">>

RECIPES ==
  << [id |-> "flower_bundle", ingredients |-> <<"petal", "petal", "leaf">>],
     [id |-> "sparkling_dew", ingredients |-> <<"drop", "petal", "leaf">>] >>

STORAGE_KEY == "crafting_game_v1"

INV_SIZE == 18

CRAFT_SIZE == 9

\* ------------------------------------------------------------------------
\* Bounds of the model
\* ------------------------------------------------------------------------
\* Drags, drops, deletes and placements address inventory slots 0..MaxInvIdx.
MaxInvIdx == 1

\* Drags and drops address crafting-grid slots 0..MaxCraftIdx.
MaxCraftIdx == 2

\* The grids handed to matchRecipe in SpecMatch hold at most this many items.
MaxGridItems == 4

InvIdx == 0..(INV_SIZE - 1)

CraftIdx == 0..(CRAFT_SIZE - 1)

InvWindow == {i \in InvIdx : i <= MaxInvIdx}

CraftWindow == {i \in CraftIdx : i <= MaxCraftIdx}

ResourceIds == {RESOURCES[i] : i \in 1..Len(RESOURCES)}

RecipeIds == {RECIPES[i].id : i \in 1..Len(RECIPES)}

ItemIds == ResourceIds \cup RecipeIds

VARIABLES
  inventory,     \* the persisted state: [inv, discovered, finalCrafted]
  craftGrid,     \* the 9 crafting slots
  localStorage,  \* the key-value store: a set of <<key, value>> entries
  lastOp,        \* history: the kind of handler path the last event took
  probe          \* SpecMatch only: the last matchRecipe call and its result

vars == <<inventory, craftGrid, localStorage, lastOp, probe>>

\* ------------------------------------------------------------------------
\* JS helpers
\* ------------------------------------------------------------------------
\* Boolean(x) for the values a slot can hold.
Truthy(x) == x # NULL /\ x # ""

\* Array(n).fill(null)
ArrayFillNull(n) == [i \in 0..(n - 1) |-> NULL]

\* arr.filter(Boolean), as a sequence in array order.
RECURSIVE FilterFrom(_, _, _)
FilterFrom(arr, i, n) ==
  IF i >= n THEN <<>>
  ELSE IF Truthy(arr[i]) THEN <<arr[i]>> \o FilterFrom(arr, i + 1, n)
       ELSE FilterFrom(arr, i + 1, n)

FilterBoolean(arr) == FilterFrom(arr, 0, Cardinality(DOMAIN arr))

\* [...a, ...b] of two arrays.
Concat(a, b) ==
  LET na == Cardinality(DOMAIN a)
      nb == Cardinality(DOMAIN b)
  IN  [i \in 0..(na + nb - 1) |-> IF i < na THEN a[i] ELSE b[i - na]]

\* arr.findIndex(x => x === null): lowest index, or -1.
FindIndexNullHighest(arr) ==
  LET hits == {i \in DOMAIN arr : arr[i] = NULL}
  IN  IF hits = {} THEN -1
      ELSE CHOOSE i \in hits : \A j \in hits : j <= i

FindIndexNull(arr) ==
  LET hits == {i \in DOMAIN arr : arr[i] = NULL}
  IN  IF hits = {} THEN -1
      ELSE CHOOSE i \in hits : \A j \in hits : i <= j

\* list.indexOf(x) on a sequence, 1-based; 0 stands for JS -1.
IndexOf(list, x) ==
  LET hits == {i \in 1..Len(list) : list[i] = x}
  IN  IF hits = {} THEN 0
      ELSE CHOOSE i \in hits : \A j \in hits : i <= j

\* list.splice(idx, 1)
Splice1(list, idx) ==
  [i \in 1..(Len(list) - 1) |-> IF i < idx THEN list[i] ELSE list[i + 1]]

\* countItems: the object {id: count} built by the reduce.
countItems(list) ==
  [id \in {list[i] : i \in 1..Len(list)} |->
     Cardinality({i \in 1..Len(list) : list[i] = id})]

matchRecipeAllowExtras(gridItems, recipe) ==
  LET gridCounts == countItems(FilterBoolean(gridItems))
      reqCounts == countItems(recipe.ingredients)
  IN  \A k \in DOMAIN reqCounts :
        k \in DOMAIN gridCounts /\ gridCounts[k] >= reqCounts[k]

matchRecipe(gridItems, recipe) ==
  LET gridCounts == countItems(FilterBoolean(gridItems))
      reqCounts == countItems(recipe.ingredients)
      totalReq == Len(recipe.ingredients)
      totalGrid == Len(FilterBoolean(gridItems))
  IN  IF \E k \in DOMAIN reqCounts :
           ~(k \in DOMAIN gridCounts) \/ gridCounts[k] < reqCounts[k]
      THEN FALSE
      ELSE totalGrid = totalReq

\* RECIPES.find(r => matchRecipe(craftGrid, r)) || null, as a catalog index
\* (0 stands for null).
possibleRecipe(grid) ==
  LET hits == {r \in 1..Len(RECIPES) : matchRecipe(grid, RECIPES[r])}
  IN  IF hits = {} THEN 0
      ELSE CHOOSE r \in hits : \A q \in hits : r <= q

\* ------------------------------------------------------------------------
\* Persistence: JSON.stringify and localStorage
\* ------------------------------------------------------------------------
\* A JSON text is modelled as its sequence of tokens <<kind, text>>.
Tok(kind, text) == <<kind, text>>

JsonSlot(x) == IF x = NULL THEN Tok("lit", "null") ELSE Tok("str", x)

JsonBool(b) == IF b THEN Tok("lit", "true") ELSE Tok("lit", "false")

\* The members of the discovered object, in key insertion order.
RECURSIVE JsonMembers(_)
JsonMembers(keys) ==
  IF keys = <<>> THEN <<>>
  ELSE <<Tok("key", Head(keys)), Tok("lit", "true")>> \o JsonMembers(Tail(keys))

\* JSON.stringify(state) of { inv, discovered, finalCrafted }.
Stringify(state) ==
  <<Tok("p", "{"), Tok("key", "inv"), Tok("p", "[")>>
  \o [i \in 1..Cardinality(DOMAIN state.inv) |-> JsonSlot(state.inv[i - 1])]
  \o <<Tok("p", "]"), Tok("key", "discovered"), Tok("p", "{")>>
  \o JsonMembers(state.discovered)
  \o <<Tok("p", "}"), Tok("key", "finalCrafted"), JsonBool(state.finalCrafted),
       Tok("p", "}")>>

\* JSON.parse on a token sequence.  A parsed value is a literal or string
\* token, <<"arr", elements>> or <<"obj", members>> with members a sequence
\* of <<key, value>>; a parse step yields the value and the next position.
ParseFail == [ok |-> FALSE, val |-> <<>>, next |-> 0]

RECURSIVE ParseValue(_, _)
RECURSIVE ParseElements(_, _, _)
RECURSIVE ParseMembers(_, _, _)
ParseValue(toks, i) ==
  IF i > Len(toks) THEN ParseFail
  ELSE LET t == toks[i]
       IN  IF t[1] \in {"lit", "str"}
           THEN [ok |-> TRUE, val |-> t, next |-> i + 1]
           ELSE IF t = Tok("p", "[") THEN ParseElements(toks, i + 1, <<>>)
           ELSE IF t = Tok("p", "{") THEN ParseMembers(toks, i + 1, <<>>)
           ELSE ParseFail

ParseElements(toks, i, acc) ==
  IF i > Len(toks) THEN ParseFail
  ELSE IF toks[i] = Tok("p", "]")
  THEN [ok |-> TRUE, val |-> <<"arr", acc>>, next |-> i + 1]
  ELSE LET r == ParseValue(toks, i)
       IN  IF r.ok THEN ParseElements(toks, r.next, Append(acc, r.val))
           ELSE ParseFail

ParseMembers(toks, i, acc) ==
  IF i > Len(toks) THEN ParseFail
  ELSE IF toks[i] = Tok("p", "}")
  THEN [ok |-> TRUE, val |-> <<"obj", acc>>, next |-> i + 1]
  ELSE IF toks[i][1] # "key" THEN ParseFail
  ELSE LET r == ParseValue(toks, i + 1)
       IN  IF r.ok
           THEN ParseMembers(toks, r.next, Append(acc, <<toks[i][2], r.val>>))
           ELSE ParseFail

\* JSON.parse(text): ok is false where it throws a SyntaxError.
JsonParseLenient(text) ==
  LET r == ParseValue(text, 1)
  IN  [ok |-> r.ok, val |-> r.val]

JsonParse(text) ==
  LET r == ParseValue(text, 1)
  IN  IF r.ok /\ r.next = Len(text) + 1
      THEN [ok |-> TRUE, val |-> r.val]
      ELSE [ok |-> FALSE, val |-> <<>>]

\* obj[key] of a parsed object: the last member of that key.
MemberOf(obj, key) ==
  LET m == obj[2]
      hits == {i \in 1..Len(m) : m[i][1] = key}
  IN  m[CHOOSE i \in hits : \A j \in hits : j <= i][2]

\* A parsed { inv, discovered, finalCrafted } as the GameState it is in
\* memory.
GameStateOf(v) ==
  LET e == MemberOf(v, "inv")[2]
      m == MemberOf(v, "discovered")[2]
  IN  [inv |-> [i \in 0..(Len(e) - 1) |->
                  IF e[i + 1][1] = "str" THEN e[i + 1][2] ELSE NULL],
       discovered |-> [i \in 1..Len(m) |-> m[i][1]],
       finalCrafted |-> MemberOf(v, "finalCrafted") = Tok("lit", "true")]

\* localStorage.setItem(key, value)
setItem(ls, key, value) == {e \in ls : e[1] # key} \cup {<<key, value>>}

\* localStorage.removeItem(key)
removeItem(ls, key) == {e \in ls : e[1] # key}

\* localStorage.getItem(key) !== null
hasItem(ls, key) == \E e \in ls : e[1] = key

\* The path the useState initializer of usePersistedState takes: getItem
\* gave null or "", JSON.parse returned, or JSON.parse threw.
loadPath(ls, key) ==
  IF ~hasItem(ls, key) THEN "absent"
  ELSE LET raw == (CHOOSE e \in ls : e[1] = key)[2]
       IN  IF raw = <<>> THEN "absent"
           ELSE IF JsonParse(raw).ok THEN "parsed" ELSE "threw"

\* The useState initializer of usePersistedState.
loadState(ls, key, initial) ==
  IF loadPath(ls, key) = "parsed"
  THEN GameStateOf(JsonParse((CHOOSE e \in ls : e[1] = key)[2]).val)
  ELSE initial

\* The effect of usePersistedState, run after a render in which `state` is a
\* new object: localStorage.setItem(key, JSON.stringify(state)).
persistEffectOnlyIfAbsent(ls, key, state) ==
  IF hasItem(ls, key) THEN ls ELSE setItem(ls, key, Stringify(state))

persistEffect(ls, key, state) == setItem(ls, key, Stringify(state))

\* The initial value handed to usePersistedState.
FreshState ==
  [inv |-> ArrayFillNull(INV_SIZE), discovered |-> <<>>, finalCrafted |-> FALSE]

\* The GameStates a session starts from: the fresh one, and the one an
\* earlier session stored after filling every slot beyond the addressed
\* window with petals (palette clicks, then deletes of the window's slots).
StartStates ==
  { FreshState,
    [FreshState EXCEPT
       !.inv = [i \in InvIdx |-> IF i \in InvWindow THEN NULL ELSE "petal"]] }

NoProbe == [recipe |-> 0, result |-> FALSE]

Init ==
  /\ inventory \in StartStates
  /\ craftGrid = ArrayFillNull(CRAFT_SIZE)
  /\ localStorage = persistEffect({}, STORAGE_KEY, inventory)
  /\ lastOp = <<"init">>
  /\ probe = NoProbe

\* ------------------------------------------------------------------------
\* How a handler ends
\* ------------------------------------------------------------------------
\* setInventory (and possibly setCraftGrid) was called: re-render, then the
\* persistence effect runs on the new state object.
Commit(newInventory, newCraft, tag) ==
  /\ lastOp' = tag
  /\ inventory' = newInventory
  /\ craftGrid' = newCraft
  /\ localStorage' = persistEffect(localStorage, STORAGE_KEY, newInventory)
  /\ UNCHANGED probe

\* Only setCraftGrid was called: the effect's dependencies did not change.
CraftOnly(newCraft, tag) ==
  /\ lastOp' = tag
  /\ craftGrid' = newCraft
  /\ UNCHANGED <<inventory, localStorage, probe>>

\* The handler returned before any setState.
NoRender(tag) ==
  /\ lastOp' = tag
  /\ UNCHANGED <<inventory, craftGrid, localStorage, probe>>

\* ------------------------------------------------------------------------
\* Palette click
\* ------------------------------------------------------------------------
\* (First conjunct: the bound.  The click is taken while the first free slot,
\* if any, is an addressed one.)
addResourceToFirstSlot(id) ==
  LET slot == FindIndexNull(inventory.inv)
  IN  /\ slot = -1 \/ slot \in InvWindow
      /\ IF slot = -1
         THEN NoRender(<<"other">>)
         ELSE Commit([inventory EXCEPT !.inv[slot] = id], craftGrid,
                     <<"other">>)

\* ------------------------------------------------------------------------
\* Drag and drop
\* ------------------------------------------------------------------------
\* The payload onDragStart is given for a palette resource, and for a slot.
PalettePayloadSourceAsId(r) == [source |-> "palette", id |-> "palette", index |-> -1]

PalettePayload(r) == [source |-> "palette", id |-> r, index |-> -1]

SlotPayload(source, i) == [source |-> source, id |-> NULL, index |-> i]

\* The payloads onDragStart can be called with in the current render: one
\* per palette resource, one per occupied crafting slot, one per occupied
\* inventory slot.  A drop handler reads the payload of the drag in progress.
DragPayloads ==
  {PalettePayload(r) : r \in ResourceIds}
  \cup {SlotPayload("craft", i) : i \in {j \in CraftWindow : Truthy(craftGrid[j])}}
  \cup {SlotPayload("inv", i) : i \in {j \in InvWindow : Truthy(inventory.inv[j])}}

\* The `!== null` test that guards a placement.
neverOccupied(arr, i) == FALSE

occupied(arr, i) == arr[i] # NULL

\* History tag of a drop: "rejected" when the handler returned at an
\* occupied target, "moved" when an item left a slot for another, "other"
\* when a palette resource was placed.
DropTag(payload, arr, targetIndex, sameGrid) ==
  IF ~sameGrid /\ arr[targetIndex] # NULL THEN <<"drop", "rejected">>
  ELSE IF payload.source = "palette" THEN <<"other">>
  ELSE <<"drop", "moved">>

onDropToInv(payload, targetIndex) ==
  LET inv == inventory.inv
      tag == DropTag(payload, inv, targetIndex, payload.source = "inv")
  IN  CASE payload.source = "palette" ->
             IF occupied(inv, targetIndex)
             THEN NoRender(tag)
             ELSE Commit([inventory EXCEPT !.inv[targetIndex] = payload.id],
                         craftGrid, tag)
        [] payload.source = "inv" ->
             LET from == payload.index
                 step1 == [inv EXCEPT ![targetIndex] = inv[from]]
                 newInv == [step1 EXCEPT ![from] = NULL]
             IN  Commit([inventory EXCEPT !.inv = newInv], craftGrid, tag)
        [] payload.source = "craft" ->
             IF occupied(inv, targetIndex)
             THEN NoRender(tag)
             ELSE Commit(
                    [inventory EXCEPT
                       !.inv[targetIndex] = craftGrid[payload.index]],
                    [craftGrid EXCEPT ![payload.index] = NULL], tag)

onDropToCraftOverwrites(payload, targetIndex) ==
  LET tag == DropTag(payload, craftGrid, targetIndex,
                     payload.source = "craft")
  IN  CASE payload.source = "palette" ->
             IF occupied(craftGrid, targetIndex)
             THEN NoRender(tag)
             ELSE CraftOnly([craftGrid EXCEPT ![targetIndex] = payload.id], tag)
        [] payload.source = "inv" ->
             LET from == payload.index
             IN  IF occupied(craftGrid, targetIndex)
                 THEN NoRender(tag)
                 ELSE Commit(
                        [inventory EXCEPT !.inv[from] = NULL],
                        [craftGrid EXCEPT ![targetIndex] = inventory.inv[from]],
                        tag)
        [] payload.source = "craft" ->
             LET from == payload.index
                 step1 == [craftGrid EXCEPT ![targetIndex] = craftGrid[from]]
                 newCraft == [step1 EXCEPT ![from] = NULL]
             IN  CraftOnly(newCraft, tag)

onDropToCraft(payload, targetIndex) ==
  LET tag == DropTag(payload, craftGrid, targetIndex,
                     payload.source = "craft")
  IN  CASE payload.source = "palette" ->
             IF occupied(craftGrid, targetIndex)
             THEN NoRender(tag)
             ELSE CraftOnly([craftGrid EXCEPT ![targetIndex] = payload.id], tag)
        [] payload.source = "inv" ->
             LET from == payload.index
             IN  IF occupied(craftGrid, targetIndex)
                 THEN NoRender(tag)
                 ELSE Commit(
                        [inventory EXCEPT !.inv[from] = NULL],
                        [craftGrid EXCEPT ![targetIndex] = inventory.inv[from]],
                        tag)
        [] payload.source = "craft" ->
             LET from == payload.index
                 step1 == [craftGrid EXCEPT ![targetIndex] = craftGrid[from]]
                 newCraft == [step1 EXCEPT ![from] = craftGrid[targetIndex]]
             IN  CraftOnly(newCraft, tag)

\* The delete button of a slot is rendered only while the slot holds an item.
onDeleteInv(index) ==
  /\ Truthy(inventory.inv[index])
  /\ Commit([inventory EXCEPT !.inv[index] = NULL], craftGrid, <<"other">>)

\* ------------------------------------------------------------------------
\* Crafting
\* ------------------------------------------------------------------------
\* The greedy removal loop of confirmCraft, from grid slot i on: a slot whose
\* item is still in req is emptied and that entry is spliced out of req.
RECURSIVE greedyRemoveOnePerKind(_, _, _)
greedyRemoveOnePerKind(newCraft, req, i) ==
  IF i >= Cardinality(DOMAIN newCraft) THEN newCraft
  ELSE IF ~Truthy(newCraft[i]) THEN greedyRemoveOnePerKind(newCraft, req, i + 1)
  ELSE LET idx == IndexOf(req, newCraft[i])
           Other(x) == x # newCraft[i]
       IN  IF idx # 0
           THEN greedyRemoveOnePerKind([newCraft EXCEPT ![i] = NULL],
                                       SelectSeq(req, Other), i + 1)
           ELSE greedyRemoveOnePerKind(newCraft, req, i + 1)

RECURSIVE greedyRemove(_, _, _)
greedyRemove(newCraft, req, i) ==
  IF i >= Cardinality(DOMAIN newCraft) THEN newCraft
  ELSE IF ~Truthy(newCraft[i]) THEN greedyRemove(newCraft, req, i + 1)
  ELSE LET idx == IndexOf(req, newCraft[i])
       IN  IF idx # 0
           THEN greedyRemove([newCraft EXCEPT ![i] = NULL],
                             Splice1(req, idx), i + 1)
           ELSE greedyRemove(newCraft, req, i + 1)

\* discovered = { ...inventory.discovered }; discovered[id] = true
markDiscoveredForgets(discovered, id) == discovered

markDiscovered(discovered, id) ==
  IF \E i \in 1..Len(discovered) : discovered[i] = id
  THEN discovered
  ELSE Append(discovered, id)

\* possibleRecipe.id === RECIPES[RECIPES.length - 1].id
isFinalRecipeFirst(id) == id = RECIPES[1].id

isFinalRecipe(id) == id = RECIPES[Len(RECIPES)].id

\* free === -1: alert and return; newCraft, a local copy, is dropped.
inventoryFullClearsGrid(recipe, newCraft, tag) == CraftOnly(newCraft, tag)

inventoryFullDiscovers(recipe, newCraft, tag) ==
  Commit([inventory EXCEPT
            !.discovered = markDiscovered(inventory.discovered, recipe.id)],
         craftGrid, tag)

inventoryFull(recipe, newCraft, tag) == NoRender(tag)

\* The Craft button is rendered only while possibleRecipe is not null.
\* (free = -1 \/ free \in InvWindow is the bound, as for the palette click.)
confirmCraft ==
  LET r == possibleRecipe(craftGrid)
  IN  /\ r # 0
      /\ LET recipe == RECIPES[r]
             newCraft == greedyRemove(craftGrid, recipe.ingredients, 0)
             free == FindIndexNull(inventory.inv)
         IN  /\ free = -1 \/ free \in InvWindow
             /\ IF free = -1
                THEN inventoryFull(recipe, newCraft, <<"confirmCraft", "full">>)
                ELSE Commit(
                       [inv |-> [inventory.inv EXCEPT ![free] = recipe.id],
                        discovered |->
                          markDiscovered(inventory.discovered, recipe.id),
                        finalCrafted |->
                          inventory.finalCrafted \/ isFinalRecipe(recipe.id)],
                       newCraft, <<"confirmCraft", "crafted">>)

\* The recipes listed under "what you can create now": those whose every
\* ingredient count is covered by the items of inventory and grid together.
canCraftFromInventoryOnly ==
  LET available == FilterBoolean(inventory.inv)
      availCounts == countItems(available)
      Covered(recipe) ==
        LET req == countItems(recipe.ingredients)
        IN  ~\E k \in DOMAIN req :
               ~(k \in DOMAIN availCounts) \/ availCounts[k] < req[k]
  IN  SelectSeq(RECIPES, Covered)

canCraftWithResources ==
  LET available == FilterBoolean(Concat(inventory.inv, craftGrid))
      availCounts == countItems(available)
      Covered(recipe) ==
        LET req == countItems(recipe.ingredients)
        IN  ~\E k \in DOMAIN req :
               ~(k \in DOMAIN availCounts) \/ availCounts[k] < req[k]
  IN  SelectSeq(RECIPES, Covered)

\* ------------------------------------------------------------------------
\* Clear Inventory and Reset Game
\* ------------------------------------------------------------------------
clearInventoryOnly ==
  Commit([inventory EXCEPT !.inv = ArrayFillNull(INV_SIZE)], craftGrid,
         <<"clearInventory">>)

clearInventory ==
  Commit([inventory EXCEPT !.inv = ArrayFillNull(INV_SIZE)],
         ArrayFillNull(CRAFT_SIZE), <<"clearInventory">>)

\* The object resetGame hands to setInventory.
resetValueKeepsProgress == [inventory EXCEPT !.inv = ArrayFillNull(INV_SIZE)]

resetValueKeepsItems ==
  [inventory EXCEPT !.discovered = <<>>, !.finalCrafted = FALSE]

resetValueKeepsFinal ==
  [inv |-> ArrayFillNull(INV_SIZE), discovered |-> <<>>,
   finalCrafted |-> inventory.finalCrafted]

resetValue ==
  [inv |-> ArrayFillNull(INV_SIZE), discovered |-> <<>>, finalCrafted |-> FALSE]

\* answer is what confirm() returned.
resetGame(answer) ==
  IF ~answer
  THEN NoRender(<<"other">>)
  ELSE /\ lastOp' = <<"resetGame", "confirmed">>
       /\ inventory' = resetValue
       /\ craftGrid' = ArrayFillNull(CRAFT_SIZE)
       /\ localStorage' =
            persistEffect(removeItem(localStorage, STORAGE_KEY), STORAGE_KEY,
                          resetValue)
       /\ UNCHANGED probe

\* ------------------------------------------------------------------------
\* The game
\* ------------------------------------------------------------------------
Next ==
  \/ \E id \in ResourceIds : addResourceToFirstSlot(id)
  \/ \E payload \in DragPayloads : \E t \in InvWindow : onDropToInv(payload, t)
  \/ \E payload \in DragPayloads : \E t \in CraftWindow :
       onDropToCraft(payload, t)
  \/ \E i \in InvWindow : onDeleteInv(i)
  \/ confirmCraft
  \/ clearInventory
  \/ \E answer \in BOOLEAN : resetGame(answer)

Spec == Init /\ [][Next]_vars

\* ------------------------------------------------------------------------
\* matchRecipe as a function: every grid of at most MaxGridItems items
\* ------------------------------------------------------------------------
InitMatch ==
  /\ inventory = FreshState
  /\ \E S \in SUBSET CraftIdx :
       /\ Cardinality(S) <= MaxGridItems
       /\ \E f \in [S -> ItemIds] :
            craftGrid = [i \in CraftIdx |-> IF i \in S THEN f[i] ELSE NULL]
  /\ localStorage = persistEffect({}, STORAGE_KEY, inventory)
  /\ lastOp = <<"init">>
  /\ probe = NoProbe

callMatchRecipe(r) ==
  /\ probe' = [recipe |-> r, result |-> matchRecipe(craftGrid, RECIPES[r])]
  /\ UNCHANGED <<inventory, craftGrid, localStorage, lastOp>>

NextMatch == \E r \in 1..Len(RECIPES) : callMatchRecipe(r)

SpecMatch == InitMatch /\ [][NextMatch]_vars

\* ------------------------------------------------------------------------
\* canCraftWithResources as a function: every content of the addressed slots
\* ------------------------------------------------------------------------
\* A game in which both recipes have been crafted, so that any item can lie
\* in any slot; the slots beyond the addressed ones are all empty or all
\* hold petals.
InitCraftable ==
  /\ \E f \in [InvWindow -> ItemIds \cup {NULL}] :
       \E rest \in {NULL, "petal"} :
         inventory =
           [inv |-> [i \in InvIdx |-> IF i \in InvWindow THEN f[i] ELSE rest],
            discovered |-> <<"flower_bundle", "sparkling_dew">>,
            finalCrafted |-> TRUE]
  /\ \E g \in [CraftWindow -> ItemIds \cup {NULL}] :
       craftGrid = [i \in CraftIdx |-> IF i \in CraftWindow THEN g[i] ELSE NULL]
  /\ localStorage = persistEffect({}, STORAGE_KEY, inventory)
  /\ lastOp = <<"init">>
  /\ probe = NoProbe

\* The discovery panel is rendered: is recipe r in the list?
callCanCraft(r) ==
  /\ probe' =
       [recipe |-> r,
        result |-> \E i \in 1..Len(canCraftWithResources) :
                     canCraftWithResources[i] = RECIPES[r]]
  /\ UNCHANGED <<inventory, craftGrid, localStorage, lastOp>>

NextCraftable == \E r \in 1..Len(RECIPES) : callCanCraft(r)

SpecCraftable == InitCraftable /\ [][NextCraftable]_vars

\* ------------------------------------------------------------------------
\* Startup: the page is loaded on a store left by an earlier session
\* ------------------------------------------------------------------------
\* How far a game can have progressed.
Progress ==
  { [discovered |-> <<>>, finalCrafted |-> FALSE],
    [discovered |-> <<"flower_bundle">>, finalCrafted |-> FALSE],
    [discovered |-> <<"sparkling_dew">>, finalCrafted |-> TRUE],
    [discovered |-> <<"flower_bundle", "sparkling_dew">>, finalCrafted |-> TRUE],
    [discovered |-> <<"sparkling_dew", "flower_bundle">>, finalCrafted |-> TRUE] }

\* The GameStates of the earlier session: a progress, and in each addressed
\* inventory slot nothing, a petal or an item crafted so far.
LoadStates ==
  UNION { { [inv |-> [i \in InvIdx |-> IF i \in InvWindow THEN f[i] ELSE NULL],
             discovered |-> pr.discovered,
             finalCrafted |-> pr.finalCrafted] :
            f \in [InvWindow ->
                     {NULL, "petal"}
                       \cup {pr.discovered[i] : i \in 1..Len(pr.discovered)}] } :
          pr \in Progress }

\* What the store can hold for a session that ended in state s: its
\* serialization, a truncation of it (the empty text included), or the
\* serialization followed by a stray token.
Truncations(s) ==
  LET text == Stringify(s)
  IN  {SubSeq(text, 1, k) : k \in 0..(Len(text) - 1)}

StoredTexts(s) ==
  {Stringify(s)} \cup Truncations(s) \cup {Stringify(s) \o <<Tok("p", "}")>>}

\* The earlier session's last GameState and grid, and the store the new
\* page finds.
InitLoad ==
  /\ inventory \in LoadStates
  /\ craftGrid \in
       { ArrayFillNull(CRAFT_SIZE),
         [i \in CraftIdx |-> IF i \in CraftWindow THEN "petal" ELSE NULL] }
  /\ \/ localStorage = {}
     \/ \E text \in StoredTexts(inventory) :
          localStorage = {<<STORAGE_KEY, text>>}
  /\ lastOp = <<"init">>
  /\ probe = NoProbe

\* The page is loaded: usePersistedState initializes the GameState from the
\* store, useState gives the grid 9 empty slots, and after the first render
\* the persistence effect stores the GameState.  (The mount effect of App
\* finds inventory.inv set and does nothing.)
startup ==
  LET loaded == loadState(localStorage, STORAGE_KEY, FreshState)
  IN  /\ lastOp' = <<"startup", loadPath(localStorage, STORAGE_KEY)>>
      /\ inventory' = loaded
      /\ craftGrid' = ArrayFillNull(CRAFT_SIZE)
      /\ localStorage' = persistEffect(localStorage, STORAGE_KEY, loaded)
      /\ UNCHANGED probe

NextLoad == startup

SpecLoad == InitLoad /\ [][NextLoad]_vars

\* ------------------------------------------------------------------------
\* Vocabulary of the properties
\* ------------------------------------------------------------------------
\* How many slots of an array hold id.
SlotCount(arr, id) == Cardinality({i \in DOMAIN arr : arr[i] = id})

\* How many entries of a list are id.
ListCount(list, id) == Cardinality({i \in 1..Len(list) : list[i] = id})

AllEmpty(arr, n) == DOMAIN arr = 0..(n - 1) /\ \A i \in DOMAIN arr : arr[i] = NULL

InventoryFull == \A i \in InvIdx : inventory.inv[i] # NULL

IsDiscovered(state, id) ==
  \E i \in 1..Len(state.discovered) : state.discovered[i] = id

\* The step is confirmCraft taken with every inventory slot occupied.  (The
\* history conjunct follows from the two others; it comes first because it
\* is the cheapest to evaluate.  The same holds in CraftSucceeds.)
CraftOnFullInventory ==
  /\ lastOp' = <<"confirmCraft", "full">>
  /\ InventoryFull
  /\ confirmCraft

\* The step is confirmCraft granting the output of recipe r.
CraftSucceeds(r) ==
  /\ lastOp' = <<"confirmCraft", "crafted">>
  /\ ~InventoryFull
  /\ possibleRecipe(craftGrid) = r
  /\ confirmCraft

\* The keys of the outermost object of a JSON token sequence.
RECURSIVE TopLevelKeys(_, _, _)
TopLevelKeys(tokens, i, depth) ==
  IF i > Len(tokens) THEN {}
  ELSE LET t == tokens[i]
       IN  IF t[1] = "p" /\ t[2] \in {"{", "["}
           THEN TopLevelKeys(tokens, i + 1, depth + 1)
           ELSE IF t[1] = "p"
           THEN TopLevelKeys(tokens, i + 1, depth - 1)
           ELSE IF t[1] = "key" /\ depth = 1
           THEN {t[2]} \cup TopLevelKeys(tokens, i + 1, depth)
           ELSE TopLevelKeys(tokens, i + 1, depth)

\* ------------------------------------------------------------------------
\* Properties
\* ------------------------------------------------------------------------
\* C1: matchRecipe(G, R) is true exactly when the multiset of non-empty
\* entries of G equals the multiset R.ingredients.
C1_MatchIsExactMultiset ==
  probe.recipe # 0 =>
    (probe.result <=>
       \A id \in ItemIds :
         SlotCount(craftGrid, id)
           = ListCount(RECIPES[probe.recipe].ingredients, id))

C1_Witness ==
  /\ probe.recipe = 2
  /\ probe.result
  /\ SlotCount(craftGrid, "drop") = 1

\* C2: a drop from inventory slot a onto inventory slot b swaps the two
\* slots and changes no other inventory slot.
C2_InvToInvSwaps ==
  [][\A a \in InvWindow : \A b \in InvWindow :
       (/\ Truthy(inventory.inv[a])
        /\ onDropToInv(SlotPayload("inv", a), b))
       => /\ inventory'.inv[b] = inventory.inv[a]
          /\ inventory'.inv[a] = inventory.inv[b]
          /\ \A k \in InvIdx \ {a, b} : inventory'.inv[k] = inventory.inv[k]
    ]_vars

\* C3 as claimed: confirming a craft with the inventory full empties the
\* grid slots that hold the ingredients and adds no item.
C3_FullCraftClearsGrid ==
  [][CraftOnFullInventory =>
       /\ \A i \in CraftIdx : craftGrid'[i] = NULL
       /\ inventory'.inv = inventory.inv
    ]_vars

\* C3 as amended: confirming a craft with the inventory full changes neither
\* the grid, which keeps its ingredients, nor any inventory slot.
C3_FullCraftKeepsGrid ==
  [][CraftOnFullInventory =>
       /\ craftGrid' = craftGrid
       /\ inventory'.inv = inventory.inv
    ]_vars

C3_Witness ==
  /\ lastOp = <<"confirmCraft", "full">>
  /\ InventoryFull
  /\ possibleRecipe(craftGrid) # 0

\* C4 as claimed: confirming a craft of R with the inventory full marks R
\* as discovered.
C4_FullCraftDiscovers ==
  [][\A r \in 1..Len(RECIPES) :
       (CraftOnFullInventory /\ possibleRecipe(craftGrid) = r)
       => IsDiscovered(inventory', RECIPES[r].id)
    ]_vars

\* C4 as amended: confirming a craft of R with the inventory full leaves
\* discovered and finalCrafted as they were, so R is discovered afterwards
\* only if it was before.
C4_FullCraftKeepsDiscovered ==
  [][\A r \in 1..Len(RECIPES) :
       (CraftOnFullInventory /\ possibleRecipe(craftGrid) = r)
       => /\ inventory'.discovered = inventory.discovered
          /\ inventory'.finalCrafted = inventory.finalCrafted
    ]_vars

C4_Witness ==
  /\ lastOp = <<"confirmCraft", "full">>
  /\ possibleRecipe(craftGrid) # 0
  /\ ~IsDiscovered(inventory, RECIPES[possibleRecipe(craftGrid)].id)

\* C5: once a confirmed full reset has been processed, the store has no
\* entry under the storage key.
C5_ResetLeavesNoEntry ==
  lastOp = <<"resetGame", "confirmed">> => ~hasItem(localStorage, STORAGE_KEY)

\* C6: the value stored under the storage key is the serialization of the
\* in-memory GameState, whose members are inv, discovered and finalCrafted:
\* the crafting grid is not part of it.
C6_StoreIsSerializedState ==
  /\ localStorage = {<<STORAGE_KEY, Stringify(inventory)>>}
  /\ \A e \in localStorage :
       TopLevelKeys(e[2], 1, 0) = {"inv", "discovered", "finalCrafted"}

C6_Witness ==
  /\ lastOp = <<"drop", "moved">>
  /\ \E i \in CraftIdx : craftGrid[i] # NULL
  /\ \E i \in InvIdx : inventory.inv[i] \in RecipeIds
  /\ localStorage = {<<STORAGE_KEY, Stringify(inventory)>>}

\* What C7 says of a drop of item, taken from the palette or from occupied
\* crafting slot i, onto inventory slot t.
C7_InvDropAsClaimed(item, fromCraft, i, t) ==
  IF inventory.inv[t] # NULL
  THEN UNCHANGED <<inventory, craftGrid>>
  ELSE /\ inventory'.inv[t] = item
       /\ fromCraft => craftGrid'[i] = NULL

\* What C7 says of a drop of item, taken from the palette or from occupied
\* inventory slot i, onto crafting-grid slot t.
C7_CraftDropAsClaimed(item, fromInv, i, t) ==
  IF craftGrid[t] # NULL
  THEN UNCHANGED <<inventory, craftGrid>>
  ELSE /\ craftGrid'[t] = item
       /\ fromInv => inventory'.inv[i] = NULL

\* C7 for the drops from the palette.
C7_PaletteDrops ==
  /\ \A t \in InvWindow : \A r \in ResourceIds :
       \/ C7_InvDropAsClaimed(r, FALSE, -1, t)
       \/ ~onDropToInv(PalettePayload(r), t)
  /\ \A t \in CraftWindow : \A r \in ResourceIds :
       \/ C7_CraftDropAsClaimed(r, FALSE, -1, t)
       \/ ~onDropToCraft(PalettePayload(r), t)

\* C7 for the drops from an occupied slot of the other grid.
C7_CrossGridDrops ==
  /\ \A t \in InvWindow : \A i \in CraftWindow :
       \/ ~Truthy(craftGrid[i])
       \/ C7_InvDropAsClaimed(craftGrid[i], TRUE, i, t)
       \/ ~onDropToInv(SlotPayload("craft", i), t)
  /\ \A t \in CraftWindow : \A i \in InvWindow :
       \/ ~Truthy(inventory.inv[i])
       \/ C7_CraftDropAsClaimed(inventory.inv[i], TRUE, i, t)
       \/ ~onDropToCraft(SlotPayload("inv", i), t)

\* C7: a drop from the palette or from the other grid onto an occupied slot
\* changes neither the GameState nor the crafting grid; onto an empty slot it
\* writes the dragged item into the target and empties a source slot.
\* (The history of a step tells which drops it can be: a palette drop leaves
\* "other" or "rejected", a cross-grid drop "moved" or "rejected", and a step
\* left "rejected" that changes neither grid is as claimed for all of them.)
C7_OccupiedRejectsEmptyAccepts ==
  [][\/ /\ lastOp' = <<"drop", "rejected">>
        /\ UNCHANGED <<inventory, craftGrid>>
     \/ /\ lastOp' \in {<<"other">>, <<"drop", "rejected">>} => C7_PaletteDrops
        /\ lastOp' \in {<<"drop", "moved">>, <<"drop", "rejected">>}
             => C7_CrossGridDrops
    ]_vars

C7_Witness ==
  /\ lastOp = <<"drop", "rejected">>
  /\ \E i \in InvWindow : inventory.inv[i] # NULL
  /\ \E i \in CraftWindow : craftGrid[i] # NULL

\* C8: finalCrafted turns true only in a successful craft of sparkling_dew,
\* and turns false only in a confirmed full reset.
C8_FinalCraftedOnlyByLastRecipe ==
  [][/\ (~inventory.finalCrafted /\ inventory'.finalCrafted) =>
          \E r \in 1..Len(RECIPES) :
            RECIPES[r].id = "sparkling_dew" /\ CraftSucceeds(r)
     /\ (inventory.finalCrafted /\ ~inventory'.finalCrafted) => resetGame(TRUE)
    ]_vars

C8_Witness ==
  /\ lastOp = <<"confirmCraft", "crafted">>
  /\ inventory.finalCrafted
  /\ \E i \in InvIdx : inventory.inv[i] = "sparkling_dew"

\* C9: a successful craft of R puts R.id in discovered, and no step other
\* than a confirmed full reset removes an entry from discovered.
C9_DiscoveredGrows ==
  [][/\ \A r \in 1..Len(RECIPES) :
          CraftSucceeds(r) => IsDiscovered(inventory', RECIPES[r].id)
     /\ \A id \in RecipeIds :
          (IsDiscovered(inventory, id) /\ ~IsDiscovered(inventory', id))
          => resetGame(TRUE)
    ]_vars

C9_Witness ==
  /\ lastOp = <<"confirmCraft", "crafted">>
  /\ IsDiscovered(inventory, "flower_bundle")
  /\ IsDiscovered(inventory, "sparkling_dew")

\* C10: a confirmed full reset leaves 18 empty inventory slots, 9 empty
\* crafting slots, nothing discovered and finalCrafted false; a declined one
\* changes nothing.
C10_ResetRestoresFresh ==
  [][/\ resetGame(TRUE) =>
          /\ AllEmpty(inventory'.inv, 18)
          /\ AllEmpty(craftGrid', 9)
          /\ inventory'.discovered = <<>>
          /\ inventory'.finalCrafted = FALSE
     /\ resetGame(FALSE) => UNCHANGED <<inventory, craftGrid, localStorage>>
    ]_vars

C10_Witness ==
  /\ lastOp = <<"resetGame", "confirmed">>
  /\ AllEmpty(inventory.inv, 18)
  /\ AllEmpty(craftGrid, 9)
  /\ inventory.discovered = <<>>

\* The crafting grid that holds a, b, c in slots 0, 1, 2 and nothing else.
GridOf(a, b, c) ==
  [i \in CraftIdx |-> IF i = 0 THEN a ELSE IF i = 1 THEN b
                      ELSE IF i = 2 THEN c ELSE NULL]

\* The preview shows the recipe id.
PreviewIs(id) ==
  LET r == possibleRecipe(craftGrid)
  IN  r # 0 /\ RECIPES[r].id = id

\* The state a confirmed craft of id leaves behind in a fresh game.
FirstCraftOf(id, final) ==
  /\ inventory'.inv = [i \in InvIdx |-> IF i = 0 THEN id ELSE NULL]
  /\ inventory'.discovered = <<id>>
  /\ inventory'.finalCrafted = final
  /\ \A i \in {0, 1, 2} : craftGrid'[i] = NULL

\* C11: in a fresh game the grid [petal, petal, leaf, null x6] previews
\* flower_bundle, and confirming empties the three slots, puts flower_bundle
\* in inventory slot 0, makes discovered {flower_bundle} and leaves
\* finalCrafted false; the grid [drop, petal, leaf, null x6] previews
\* sparkling_dew, and confirming sets finalCrafted.
C11_FirstCrafts ==
  [][/\ craftGrid = GridOf("petal", "petal", "leaf") =>
          /\ PreviewIs("flower_bundle")
          /\ (inventory = FreshState /\ confirmCraft)
               => FirstCraftOf("flower_bundle", FALSE)
     /\ craftGrid = GridOf("drop", "petal", "leaf") =>
          /\ PreviewIs("sparkling_dew")
          /\ (inventory = FreshState /\ confirmCraft)
               => FirstCraftOf("sparkling_dew", TRUE)
    ]_vars

C11_Witness ==
  /\ lastOp = <<"confirmCraft", "crafted">>
  /\ inventory.inv = [i \in InvIdx |-> IF i = 0 THEN "sparkling_dew" ELSE NULL]
  /\ inventory.discovered = <<"sparkling_dew">>
  /\ inventory.finalCrafted
  /\ AllEmpty(craftGrid, 9)

\* C12: canCraftWithResources returns exactly the recipes whose ingredient
\* multiset is contained in the multiset of all items of inventory and
\* crafting grid together: extra items never exclude a recipe, a missing copy
\* of an ingredient always does.
C12_CraftableIsSubMultiset ==
  probe.recipe # 0 =>
    (probe.result <=>
       \A id \in ItemIds :
         ListCount(RECIPES[probe.recipe].ingredients, id)
           <= SlotCount(inventory.inv, id) + SlotCount(craftGrid, id))

C12_Witness ==
  /\ probe.recipe = 1
  /\ probe.result
  /\ SlotCount(craftGrid, "drop") >= 1
  /\ SlotCount(craftGrid, "petal") = 1
  /\ SlotCount(inventory.inv, "petal") = 1
  /\ SlotCount(inventory.inv, "leaf") = 1

\* What C13 says of a drop of the item of crafting slot a onto crafting
\* slot b.
C13_SwapAsClaimed(a, b) ==
  /\ craftGrid'[b] = craftGrid[a]
  /\ craftGrid'[a] = craftGrid[b]
  /\ \A k \in CraftIdx \ {a, b} : craftGrid'[k] = craftGrid[k]
  /\ inventory' = inventory
  /\ a = b => craftGrid' = craftGrid

\* C13: a drop of the item of crafting slot A onto crafting slot B exchanges
\* the contents of A and B, changes no other grid slot and nothing of the
\* GameState; with A = B the grid is unchanged.
\* (Such a drop always leaves the history "moved".)
C13_CraftToCraftSwaps ==
  [][lastOp' = <<"drop", "moved">> =>
       \A a \in CraftWindow : \A b \in CraftWindow :
         \/ ~Truthy(craftGrid[a])
         \/ C13_SwapAsClaimed(a, b)
         \/ ~onDropToCraft(SlotPayload("craft", a), b)
    ]_vars

\* (Every other drop that leaves "moved" empties an addressed slot.)
C13_Witness ==
  /\ lastOp = <<"drop", "moved">>
  /\ craftGrid[0] = "leaf"
  /\ craftGrid[1] = "flower_bundle"
  /\ craftGrid[2] = "drop"
  /\ \A i \in InvWindow : inventory.inv[i] # NULL

\* C14: Clear Inventory empties all 18 inventory slots and all 9 crafting
\* slots and leaves discovered and finalCrafted as they were.
C14_ClearKeepsProgress ==
  [][(lastOp' = <<"clearInventory">> /\ clearInventory) =>
       /\ AllEmpty(inventory'.inv, 18)
       /\ AllEmpty(craftGrid', 9)
       /\ inventory'.discovered = inventory.discovered
       /\ inventory'.finalCrafted = inventory.finalCrafted
    ]_vars

C14_Witness ==
  /\ lastOp = <<"clearInventory">>
  /\ AllEmpty(inventory.inv, 18)
  /\ AllEmpty(craftGrid, 9)
  /\ inventory.discovered = <<"sparkling_dew", "flower_bundle">>
  /\ inventory.finalCrafted

IsFresh(state) ==
  /\ AllEmpty(state.inv, 18)
  /\ state.discovered = <<>>
  /\ state.finalCrafted = FALSE

\* The text is a damaged serialization of s: cut short, or followed by a
\* stray token.
Corrupt(text, s) ==
  text \in Truncations(s) \cup {Stringify(s) \o <<Tok("p", "}")>>}

\* C15: at startup the GameState is the deserialized stored value when the
\* store holds the serialization of the earlier session's GameState, the
\* fresh state when it holds no entry and the fresh state when the entry is
\* damaged; the crafting grid starts with 9 empty slots whatever it held
\* before.
C15_StartupLoads ==
  [][startup =>
       /\ AllEmpty(craftGrid', 9)
       /\ ~hasItem(localStorage, STORAGE_KEY) => IsFresh(inventory')
       /\ \A e \in localStorage :
            e[1] = STORAGE_KEY =>
              /\ e[2] = Stringify(inventory) => inventory' = inventory
              /\ Corrupt(e[2], inventory) => IsFresh(inventory')
    ]_vars

C15_Witness ==
  /\ lastOp = <<"startup", "threw">>
  /\ IsFresh(inventory)
  /\ AllEmpty(craftGrid, 9)
  /\ localStorage = {<<STORAGE_KEY, Stringify(FreshState)>>}

\* C16: a successful craft of R leaves the whole crafting grid empty and
\* writes R.id into the lowest-index empty inventory slot, changing no other
\* inventory slot.
C16_CraftEmptiesGridFillsFirstFree ==
  [][\A r \in 1..Len(RECIPES) :
       CraftSucceeds(r) =>
         /\ AllEmpty(craftGrid', 9)
         /\ \E f \in InvIdx :
              /\ inventory.inv[f] = NULL
              /\ \A j \in InvIdx : j < f => inventory.inv[j] # NULL
              /\ inventory'.inv[f] = RECIPES[r].id
              /\ \A k \in InvIdx \ {f} : inventory'.inv[k] = inventory.inv[k]
    ]_vars

C16_Witness ==
  /\ lastOp = <<"confirmCraft", "crafted">>
  /\ AllEmpty(craftGrid, 9)
  /\ inventory.inv[0] = "leaf"
  /\ inventory.inv[1] = "flower_bundle"
  /\ inventory.inv[2] = NULL

\* How many slots of inventory and crafting grid together hold id.
Held(inv, grid, id) == SlotCount(inv, id) + SlotCount(grid, id)

\* C17: the inventory has exactly 18 slots and the crafting grid exactly 9,
\* and every slot is empty or holds an id of the resource or recipe catalog.
C17_SlotsWellFormed ==
  /\ DOMAIN inventory.inv = 0..17
  /\ DOMAIN craftGrid = 0..8
  /\ \A i \in DOMAIN inventory.inv : inventory.inv[i] \in ItemIds \cup {NULL}
  /\ \A i \in DOMAIN craftGrid : craftGrid[i] \in ItemIds \cup {NULL}

C17_Witness ==
  /\ lastOp = <<"drop", "moved">>
  /\ craftGrid[0] \in RecipeIds
  /\ craftGrid[1] \in ResourceIds
  /\ inventory.inv[0] \in RecipeIds
  /\ inventory.inv[1] = NULL

\* C18: a drop whose drag source is an inventory slot or a crafting-grid
\* slot leaves the multiset of items held in inventory and crafting grid
\* together unchanged, whatever the source and the target.
\* (Such a drop leaves the history "moved" or "rejected".)
C18_MovesConserveItems ==
  [][(/\ lastOp' \in {<<"drop", "moved">>, <<"drop", "rejected">>}
      /\ \/ \E a \in InvWindow : \E b \in InvWindow :
              Truthy(inventory.inv[a]) /\ onDropToInv(SlotPayload("inv", a), b)
         \/ \E a \in InvWindow : \E b \in CraftWindow :
              Truthy(inventory.inv[a]) /\ onDropToCraft(SlotPayload("inv", a), b)
         \/ \E a \in CraftWindow : \E b \in InvWindow :
              Truthy(craftGrid[a]) /\ onDropToInv(SlotPayload("craft", a), b)
         \/ \E a \in CraftWindow : \E b \in CraftWindow :
              Truthy(craftGrid[a]) /\ onDropToCraft(SlotPayload("craft", a), b))
     => \A id \in ItemIds :
          Held(inventory'.inv, craftGrid', id) = Held(inventory.inv, craftGrid, id)
    ]_vars

\* C19: every recipe id held in an inventory or crafting-grid slot is marked
\* in discovered.
C19_CraftedItemsAreDiscovered ==
  \A id \in RecipeIds :
    Held(inventory.inv, craftGrid, id) > 0 => IsDiscovered(inventory, id)

C19_Witness ==
  /\ SlotCount(craftGrid, "flower_bundle") = 1
  /\ SlotCount(inventory.inv, "sparkling_dew") = 1
  /\ inventory.discovered = <<"flower_bundle", "sparkling_dew">>

\* C20: finalCrafted implies that discovered contains the id of the last
\* recipe of the catalog, sparkling_dew.
C20_FinalImpliesDiscovered ==
  inventory.finalCrafted =>
    /\ RECIPES[Len(RECIPES)].id = "sparkling_dew"
    /\ IsDiscovered(inventory, "sparkling_dew")

C20_Witness ==
  /\ inventory.finalCrafted
  /\ inventory.discovered = <<"sparkling_dew">>
  /\ Held(inventory.inv, craftGrid, "sparkling_dew") = 0
  /\ lastOp = <<"other">>

====
